---- MODULE Spec2Model ----
(***************************************************************************)
(* TorNetworkClient (tor-client.ts) as a state machine.                    *)
(*                                                                         *)
(* The client is an object with four mutable fields (isInitialized, agent, *)
(* torProcess, connectionStatus) whose async methods run on one event loop:*)
(* a method runs without interruption up to its next `await`, and resumes  *)
(* when the awaited promise settles.  Every action below is one such run:  *)
(* a public call up to its first await, or the continuation that an event  *)
(* of the host (an HTTP answer, a timer, a child-process event, a socket   *)
(* event, a settled promise) resumes.  The environment (network, daemon,   *)
(* file system) chooses every answer nondeterministically.                 *)
(***************************************************************************)
EXTENDS Integers, Sequences, FiniteSets, TLC

(***************************************************************************)
(* Bounds of the model                                                     *)
(***************************************************************************)
\* the daemon is spawned at most this many times in a run of Spec
MaxSpawn == 1
\* the daemon is spawned at most this many times in a run of SpecInit
MaxRespawn == 2
\* the logical clock (new Date()) runs from 1 to MaxClock
MaxClock == 2
\* a control-port reply holds at most this many lines without a completion marker
MaxResp == 1
\* the callers that may have a call in flight at the same time, and the caller
\* of the runs in which one call follows the other
Callers == {"c1", "c2"}
Main == "c1"

\* waitForTorConnection gives up after this many probes in a run of SpecInit or SpecTwo
MaxProbes == 1

\* waitForTorConnection, line 302: const maxAttempts = 30
maxAttempts == 30

(***************************************************************************)
(* Values                                                                  *)
(***************************************************************************)
\* JavaScript values of the IsTor flag as it travels through the code
JSFlag == {"true", "false", "undefined"}
Truthy(v) == v = "true"

\* what `await response.json()` yields: a parse error, the JSON value null,
\* or an object whose IsTor and IP members are read by the code
IPs == {"198.51.100.7", "203.0.113.9"}
Bodies ==
    {[kind |-> "garbage", IsTor |-> "undefined", IP |-> "undefined"],
     [kind |-> "null", IsTor |-> "undefined", IP |-> "undefined"]}
    \cup {[kind |-> "object", IsTor |-> i, IP |-> p] : i \in JSFlag, p \in IPs}

\* outcomes of one node-fetch call: it throws, or answers with a status
FetchOutcomes == {"error", "notok", "ok"}

\* request() arguments
Urls == {"https://example.com/", "http://duckduckgogg42xjoc72x3sjasowoarfbgcmvfimaftt6twagswzczad.onion/"}
Methods == {"GET", "POST"}

\* lines the daemon may write on the control port
CtlLines == {"250 OK", "250-version=0.4.8.9", "552 Unrecognized signal"}

\* this.torProcess: null, or the place of the child in procs
NoProcess == 0
\* lastCircuitTime is undefined until newCircuit() stamps it; the clock starts at 1
NoTime == 0
\* lastCircuitTime is a Date, an object: the status holds a reference to it.  The
\* model keeps the identity of the object (lastCircuitDate) next to the time read
\* through the reference (lastCircuitTime); NoDate is the missing reference
NoDate == 0

ErrNotInitialized == "TOR client not initialized"
ErrNotConnected == "TOR initialization failed: Error: Failed to establish TOR connection"
ErrStartupTimeout == "TOR initialization failed: Error: TOR startup timeout"
ErrExited == "TOR initialization failed: Error: TOR exited with code"
ErrSpawn == "TOR initialization failed: Error: Failed to start TOR"
ErrConnTimeout == "TOR initialization failed: Error: TOR connection timeout"
ErrFs == "TOR initialization failed: Error: EACCES"
ErrFetch == "FetchError"

VARIABLES
    isInitialized,      \* this.isInitialized
    agent,              \* this.agent
    torProcess,         \* this.torProcess: NoProcess (null) or an index into procs
    connectionStatus,   \* this.connectionStatus
    procs,              \* the child processes spawned so far, with their start promise
    calls,              \* per caller: the call in flight or the last one finished
    clock,              \* what new Date() returns
    probesHealthy,      \* history: every connectivity answer so far was success, IsTor true
    files,              \* the file system: what each torrc path holds
    env,                \* process.env of the process that created the client
    config,             \* this.config
    peer,               \* a second client on the same host, with a configuration of its own
    server,             \* the server process that owns the client: up, or how it exited
    tools               \* per caller: the tool invocation in flight or the last one answered

vars == <<isInitialized, agent, torProcess, connectionStatus, procs, calls, clock,
          probesHealthy, files, env, config, peer, server, tools>>

\* the variables that no method of the client writes
hostVars == <<env, config, peer, server, tools>>

\* a member that an object does not have, a variable that the environment does not set
Absent == "absent"
NoPort == 0

\* the defaults of the constructor, lines 53-54 and 58
DefaultSocksPort == 9050
DefaultControlPort == 9051
DefaultDataDirectory == "/tmp/torollama-tor"

\* another data directory that a client may be given
OtherDataDirectory == "/srv/tor-b"

\* Partial<TorConfig>: what `new TorNetworkClient(config)` may be given
PartialConfigs ==
    [socksPort : {NoPort, DefaultSocksPort, 9060},
     controlPort : {NoPort, DefaultControlPort, 9061},
     dataDirectory : {Absent, OtherDataDirectory}]

\* `new TorNetworkClient()`: the default argument {} of line 51
NoConfig == [socksPort |-> NoPort, controlPort |-> NoPort, dataDirectory |-> Absent]

\* the constructor, lines 51-61: a member that is given wins, the others get their
\* defaults; the data directory's default is the same for every client
constructor(partial) ==
    [socksPort |-> IF partial.socksPort = NoPort
                   THEN DefaultSocksPort ELSE partial.socksPort,
     controlPort |-> IF partial.controlPort = NoPort
                     THEN DefaultControlPort ELSE partial.controlPort,
     dataDirectory |-> IF partial.dataDirectory = Absent
                       THEN DefaultDataDirectory ELSE partial.dataDirectory]

\* the environment variables that the README documents; a port variable holds the
\* decimal numeral of a port, written here as the number
Environments ==
    [TOR_SOCKS_PORT : {NoPort, 9060},
     TOR_CONTROL_PORT : {NoPort, 9061},
     TOR_DATA_DIR : {Absent, OtherDataDirectory}]

NoEnv == [TOR_SOCKS_PORT |-> NoPort, TOR_CONTROL_PORT |-> NoPort, TOR_DATA_DIR |-> Absent]

\* the server's constructor, line 43 of the server: the client is created without
\* arguments, whatever the environment e holds
TorOllamaMcpServer(e) == constructor(NoConfig)

\* startTorDaemon, line 234: join(dataDirectory, 'torrc')
torrcPath(cfg) == <<cfg.dataDirectory, "torrc">>

\* startTorDaemon, lines 235-246: the directives of the generated file
torrcContent(cfg) ==
    [SocksPort |-> cfg.socksPort, ControlPort |-> cfg.controlPort,
     DataDirectory |-> cfg.dataDirectory,
     HashedControlPassword |->
         "16:872860B76453A77D60CA2BB8C1A7042072093276A3D701AD684053EC4C",
     CookieAuthentication |-> 1]

\* a path at which no file exists
NoFile ==
    [SocksPort |-> NoPort, ControlPort |-> NoPort, DataDirectory |-> Absent,
     HashedControlPassword |-> Absent, CookieAuthentication |-> 0]

TorrcPaths == {torrcPath(constructor(p)) : p \in PartialConfigs}

\* line 43: this.agent before initialize() and after cleanup()
NoAgent == [protocol |-> "null", host |-> "null", port |-> NoPort]

\* lines 82-84 and 209: new SocksProxyAgent(`socks5h://127.0.0.1:${socksPort}`)
SocksProxyAgent(socksPort) == [protocol |-> "socks5h", host |-> "127.0.0.1", port |-> socksPort]
SocksAgent == SocksProxyAgent(config.socksPort)

\* private connectionStatus = { isConnected: false, circuitEstablished: false }
InitialStatus ==
    [isConnected |-> "false", circuitEstablished |-> "false", currentIP |-> "undefined",
     torVersion |-> "undefined", circuitCount |-> "undefined", lastCircuitTime |-> NoTime,
     lastCircuitDate |-> NoDate]

\* a caller's slot before its first call
IdleCall ==
    [op |-> "none", pc |-> "idle", site |-> "-", out |-> "none", val |-> "-",
     snap |-> InitialStatus, attempts |-> 0, pid |-> NoProcess, fetches |-> 0,
     cc |-> "-", ctl |-> "none", sock |-> "none", wrote |-> <<>>, resp |-> <<>>,
     t0 |-> 0, url |-> "-", method |-> "-", adopted |-> FALSE, madeAgent |-> FALSE,
     via |-> NoAgent]

NewCall(op) == [IdleCall EXCEPT !.op = op]

Free(c) == calls[c].pc \in {"idle", "done"}

\* a finished call: its result, and what the call did that an observer can tell
\* (its arguments, the process it spawned, whether it adopted a running daemon, how
\* its last control command and its last connection check ended); its local
\* variables are gone
Finished(r) ==
    [IdleCall EXCEPT !.op = r.op, !.pc = "done", !.t0 = r.t0, !.url = r.url,
                     !.method = r.method, !.pid = r.pid, !.adopted = r.adopted,
                     !.madeAgent = r.madeAgent, !.ctl = r.ctl, !.cc = r.cc,
                     !.sock = r.sock]
Return(r, v) == [Finished(r) EXCEPT !.out = "return", !.val = v]
Throw(r, e) == [Finished(r) EXCEPT !.out = "throw", !.val = e]

\* the fields of `this`, passed through the code of one run and written back at its end
This ==
    [isInitialized |-> isInitialized, agent |-> agent, torProcess |-> torProcess,
     connectionStatus |-> connectionStatus]

Commit(c, s) ==
    /\ isInitialized' = s.t.isInitialized
    /\ agent' = s.t.agent
    /\ torProcess' = s.t.torProcess
    /\ connectionStatus' = s.t.connectionStatus
    /\ calls' = [calls EXCEPT ![c] = s.r]

St(t, r) == [t |-> t, r |-> r]

(***************************************************************************)
(* The code of the methods, one operator per run between two awaits.  An   *)
(* operator takes the fields of `this` (t) and the call (r) and yields     *)
(* both as the run leaves them.                                            *)
(***************************************************************************)

\* sendControlCommand, lines 354-356 and 383: the socket is created and the promise
\* is pending; the command is written by the 'connect' handler
sendControlCommand(r, command) ==
    [r EXCEPT !.pc = "control", !.site = command, !.sock = "connecting",
              !.wrote = <<>>, !.resp = <<>>, !.ctl = "none"]

\* a guard that tests the agent alone
requestGuard_agentOnly(t) == t.agent # NoAgent

\* request, line 104: the guard that lets a call through to fetch
requestGuard(t) == t.isInitialized /\ t.agent # NoAgent

\* checkConnection, line 180 (and 183, 187): its promise resolves with v.  A direct
\* call is finished; inside updateConnectionStatus the result waits for line 326
checkConnection_return(t, r, v) ==
    IF r.op = "checkConnection"
    THEN St(t, Return(r, v))
    ELSE St(t, [r EXCEPT !.pc = "await", !.site = "checkConnection", !.cc = v])

\* a catch block that lets the error escape from a direct call
checkConnection_rethrow(t, r) ==
    IF r.op = "checkConnection"
    THEN St(t, Throw(r, ErrNotInitialized))
    ELSE checkConnection_return(t, r, "false")

\* checkConnection, lines 184-188: the catch block
checkConnection_catch(t, r) ==
    checkConnection_return(
        [t EXCEPT !.connectionStatus.isConnected = "false"], r, "false")

\* checkConnection, lines 171-174, entering request (lines 103-123): the request is
\* rejected at once by the guard (the rejection reaches the catch block in a later
\* run), or fetch is called with the agent
checkConnection(t, r) ==
    IF requestGuard(t)
    THEN St(t, [r EXCEPT !.pc = "fetch", !.site = "request", !.fetches = @ + 1,
                         !.via = t.agent])
    ELSE St(t, [r EXCEPT !.pc = "await", !.site = "request"])

\* checkConnection, lines 176-183, once request() has returned a response
checkConnection_response(t, r, ok) ==
    IF ok
    THEN St(t, [r EXCEPT !.pc = "json", !.site = "request"])
    ELSE checkConnection_return(t, r, "false")

\* checkConnection, lines 177-180, once response.json() has settled with body b:
\* a parse error and a read of a member of null both throw into the catch block
checkConnection_json(t, r, b) ==
    IF b.kind # "object"
    THEN checkConnection_catch(t, r)
    ELSE checkConnection_return(
             [t EXCEPT !.connectionStatus.currentIP = b.IP,
                       !.connectionStatus.isConnected = b.IsTor], r, b.IsTor)

\* a refresh that builds the status from the check alone, without the spread of line 329
updateConnectionStatus_fresh(t, r) ==
    St([t EXCEPT !.connectionStatus =
           [InitialStatus EXCEPT !.isConnected = r.cc, !.circuitEstablished = r.cc]],
       [r EXCEPT !.pc = "await", !.site = "updateConnectionStatus"])

\* updateConnectionStatus, lines 326-343, once checkConnection() has returned r.cc.
\* (The catch block of lines 344-347 has nothing that throws into it.)
updateConnectionStatus_cont(t, r) ==
    LET t2 == [t EXCEPT !.connectionStatus =
                   [t.connectionStatus EXCEPT !.isConnected = r.cc,
                                              !.circuitEstablished = r.cc]]
    IN  IF Truthy(r.cc)
        THEN St(t2, sendControlCommand(r, "GETINFO version"))
        ELSE St(t2, [r EXCEPT !.pc = "await", !.site = "updateConnectionStatus"])

\* versionInfo.split('=')[1]?.trim(), line 338, on the reply as received
versionPart(resp) ==
    IF resp = <<>> THEN "undefined"
    ELSE IF resp[Len(resp)] = "250-version=0.4.8.9" THEN "0.4.8.9"
    ELSE "undefined"

\* updateConnectionStatus, lines 337-342, once the version command has settled
updateConnectionStatus_version(t, r, resolved) ==
    LET t2 == IF resolved
              THEN [t EXCEPT !.connectionStatus.torVersion = versionPart(r.resp)]
              ELSE t
    IN  St(t2, [r EXCEPT !.pc = "await", !.site = "updateConnectionStatus"])

\* an initialize that marks the client initialized whatever the refreshed status says
initialize_verify_unchecked(t, r) ==
    St([t EXCEPT !.isInitialized = TRUE], Return(r, "undefined"))

\* initialize, lines 89-97, once updateConnectionStatus() has returned
initialize_verify(t, r) ==
    IF ~Truthy(t.connectionStatus.isConnected)
    THEN St(t, Throw(r, ErrNotConnected))
    ELSE St([t EXCEPT !.isInitialized = TRUE], Return(r, "undefined"))

\* getStatus, line 140: a copy of the status
getStatus_return(t, r) ==
    St(t, [Return(r, "status") EXCEPT !.snap = t.connectionStatus])

\* new Date(), line 157: an object that nothing refers to yet
FreshDate ==
    CHOOSE n \in 1..(Cardinality(Callers) + 1) :
        /\ \A c \in Callers : calls[c].snap.lastCircuitDate # n
        /\ \A m \in 1..(n - 1) : \E c \in Callers : calls[c].snap.lastCircuitDate = m

\* newCircuit, lines 157-160, once updateConnectionStatus() has returned
newCircuit_stamp(t, r, now) ==
    St([t EXCEPT !.connectionStatus.lastCircuitTime = now,
                 !.connectionStatus.lastCircuitDate = FreshDate],
       Return(r, "true"))

\* a catch block that passes the error on to the caller
newCircuit_rethrow(t, r) == St(t, Throw(r, "Error: connect ECONNREFUSED 127.0.0.1:9051"))

\* newCircuit, lines 161-164: the catch block
newCircuit_catch(t, r) == St(t, Return(r, "false"))

\* initialize, lines 81-87: the agent is created and the status refresh begins
initialize_agent(t, r) ==
    checkConnection(
        [t EXCEPT !.agent = SocksAgent],
        [r EXCEPT !.madeAgent = TRUE])

\* a probe that calls fetch without an agent
checkExistingTorConnection_direct(r, site) ==
    [r EXCEPT !.pc = "fetch", !.site = site, !.fetches = @ + 1, !.via = NoAgent]

\* checkExistingTorConnection, lines 209-213: a probe through an agent of its own
checkExistingTorConnection(r, site) ==
    [r EXCEPT !.pc = "fetch", !.site = site, !.fetches = @ + 1, !.via = SocksAgent]

\* an initialize that starts a daemon of its own whatever the first probe says
probe_result_alwaysSpawn(t, r, v) ==
    IF r.site = "existing"
    THEN St(t, [r EXCEPT !.pc = "mkdir", !.site = "-", !.adopted = Truthy(v)])
    ELSE IF Truthy(v)
         THEN initialize_agent(t, r)
         ELSE St(t, [r EXCEPT !.pc = "sleep", !.site = "wait", !.attempts = @ + 1])

\* initialize, lines 73-79, and waitForTorConnection, lines 307-315, once
\* checkExistingTorConnection() has returned v
probe_result(t, r, v) ==
    IF Truthy(v)
    THEN initialize_agent(t, [r EXCEPT !.adopted = (r.site = "existing")])
    ELSE IF r.site = "existing"
         THEN St(t, [r EXCEPT !.pc = "mkdir", !.site = "-"])
         ELSE St(t, [r EXCEPT !.pc = "sleep", !.site = "wait", !.attempts = @ + 1])

\* request, lines 122-132, for a direct call: the response or the error goes to the caller
request_settle(t, r, outcome) ==
    IF outcome = "error"
    THEN St(t, Throw(r, ErrFetch))
    ELSE St(t, Return(r, IF outcome = "ok" THEN "response 200" ELSE "response 500"))

(***************************************************************************)
(* The spawned daemon and the promise of startTorDaemon                    *)
(***************************************************************************)

\* startTorDaemon, lines 251-295: the child just spawned.  `found` says whether the
\* tor binary exists; if not, the child emits 'error'.  torOutput holds no marker,
\* the promise is pending, and the checkReady timer is armed (poll).  The 60 s timer
\* is armed too; it has no field, because its callback only calls reject(): once it
\* has fired, or fires on a settled promise, nothing changes any more.
spawn(found) ==
    [status |-> IF found THEN "running" ELSE "enoent", signalled |-> FALSE,
     marker |-> FALSE, settled |-> "pending", poll |-> TRUE]

\* resolve() and reject() of the promise: only the first one counts
resolve(p) == IF p.settled = "pending" THEN [p EXCEPT !.settled = "resolved"] ELSE p
reject(p) == IF p.settled = "pending" THEN [p EXCEPT !.settled = "rejected"] ELSE p

\* lines 258-268: output arrives; `m` says whether it completes a readiness marker
onOutput(p, m) == [p EXCEPT !.marker = @ \/ m]

\* an 'error' handler that does not settle the promise
onError_noReject(p) == [p EXCEPT !.status = "failed"]

\* lines 270-272
onError(p) == reject([p EXCEPT !.status = "failed"])

\* lines 274-278
onExit(p, code) ==
    IF code # "0"
    THEN reject([p EXCEPT !.status = "exited"])
    ELSE [p EXCEPT !.status = "exited"]

\* lines 281-287: checkReady resolves, or arms its timer again
checkReady(p) == IF p.marker THEN resolve([p EXCEPT !.poll = FALSE]) ELSE p

\* lines 292-294
onStartupTimeout(p) == reject(p)

\* cleanup, line 196: kill('SIGTERM') reaches a child that is running
kill(p) == [p EXCEPT !.signalled = (p.status = "running")]

(***************************************************************************)
(* Actions: the public calls                                               *)
(***************************************************************************)

\* the initialize() calls in flight that may still spawn a daemon
MaySpawn == {c \in Callers : calls[c].op = "initialize" /\ calls[c].pid = NoProcess
                             /\ calls[c].pc \in {"fetch", "json", "mkdir", "writeFile"}}

\* initialize(), lines 66-73, up to the await of the first probe
initialize(t, r) ==
    IF t.isInitialized
    THEN St(t, Return(r, "undefined"))
    ELSE St(t, checkExistingTorConnection(r, "existing"))

CallInitialize(c, maxSpawn) ==
    /\ Free(c)
    /\ isInitialized \/ Len(procs) + Cardinality(MaySpawn) < maxSpawn
    /\ Commit(c, initialize(This, NewCall("initialize")))
    /\ UNCHANGED <<procs, clock, probesHealthy, files, hostVars>>

\* request(url, options), lines 103-123, up to the await of fetch
request(t, r) ==
    IF ~requestGuard(t)
    THEN St(t, Throw(r, ErrNotInitialized))
    ELSE St(t, [r EXCEPT !.pc = "fetch", !.site = "request", !.fetches = @ + 1,
                         !.via = t.agent])

CallRequest(c) ==
    /\ Free(c)
    /\ \E u \in Urls, m \in Methods :
          Commit(c, request(This, [NewCall("request") EXCEPT !.url = u, !.method = m]))
    /\ UNCHANGED <<procs, clock, probesHealthy, files, hostVars>>

\* checkConnection(), lines 170-174
CallCheckConnection(c) ==
    /\ Free(c)
    /\ Commit(c, checkConnection(This, NewCall("checkConnection")))
    /\ UNCHANGED <<procs, clock, probesHealthy, files, hostVars>>

\* getStatus(), lines 138-139, into updateConnectionStatus and checkConnection
CallGetStatus(c) ==
    /\ Free(c)
    /\ Commit(c, checkConnection(This, NewCall("getStatus")))
    /\ UNCHANGED <<procs, clock, probesHealthy, files, hostVars>>

\* newCircuit(), lines 146-149
CallNewCircuit(c) ==
    /\ Free(c)
    /\ calls' = [calls EXCEPT ![c] =
                    sendControlCommand([NewCall("newCircuit") EXCEPT !.t0 = clock],
                                       "SIGNAL NEWNYM")]
    /\ UNCHANGED <<isInitialized, agent, torProcess, connectionStatus, procs, clock,
                   probesHealthy, files, hostVars>>

\* a cleanup that signals the child and keeps its handle
cleanup_keepHandle(t, r) ==
    St([t EXCEPT !.agent = NoAgent, !.isInitialized = FALSE], Return(r, "undefined"))

\* cleanup(), lines 194-202: no await, the whole method is one run
cleanup(t, r) ==
    St([t EXCEPT !.torProcess = NoProcess, !.agent = NoAgent, !.isInitialized = FALSE],
       Return(r, "undefined"))

CallCleanup(c) ==
    /\ Free(c)
    /\ Commit(c, cleanup(This, NewCall("cleanup")))
    /\ procs' = IF torProcess # NoProcess
                THEN [procs EXCEPT ![torProcess] = kill(@)]
                ELSE procs
    /\ UNCHANGED <<clock, probesHealthy, files, hostVars>>

(***************************************************************************)
(* Actions: the events that resume a call                                  *)
(***************************************************************************)

\* checkExistingTorConnection, lines 215-223, once fetch has settled
checkExistingTorConnection_response(t, r, outcome) ==
    IF outcome = "ok"
    THEN St(t, [r EXCEPT !.pc = "json"])
    ELSE probe_result(t, r, "false")

\* checkExistingTorConnection, lines 216-222, once response.json() has settled
checkExistingTorConnection_json(t, r, b) ==
    probe_result(t, r, IF b.kind = "object" THEN b.IsTor ELSE "false")

\* A continuation that waits for a promise already settled runs before the event
\* loop takes its next event (I/O, timer, child process): while one is waiting, no
\* such event is handled.  Calls of the public methods may come at any time.
NoMicrotask == \A d \in Callers : calls[d].pc # "await"

\* a fetch settles: the probe's (line 210) or request's (line 123)
FetchSettle(c) ==
    /\ NoMicrotask
    /\ calls[c].pc = "fetch"
    /\ \E o \in FetchOutcomes :
          /\ Commit(c, IF calls[c].site \in {"existing", "wait"}
                       THEN checkExistingTorConnection_response(This, calls[c], o)
                       ELSE IF calls[c].op = "request"
                       THEN request_settle(This, calls[c], o)
                       ELSE IF o = "error"
                       THEN checkConnection_catch(This, calls[c])
                       ELSE checkConnection_response(This, calls[c], o = "ok"))
          /\ probesHealthy' = (probesHealthy /\ o = "ok")
    /\ UNCHANGED <<procs, clock, files, hostVars>>

\* response.json() settles (lines 216 and 177)
JsonSettle(c) ==
    /\ NoMicrotask
    /\ calls[c].pc = "json"
    /\ \E b \in Bodies :
          /\ Commit(c, IF calls[c].site \in {"existing", "wait"}
                       THEN checkExistingTorConnection_json(This, calls[c], b)
                       ELSE checkConnection_json(This, calls[c], b))
          /\ probesHealthy' = (probesHealthy /\ b.kind = "object" /\ b.IsTor = "true")
    /\ UNCHANGED <<procs, clock, files, hostVars>>

\* the promise of an async method of the client has settled and its caller resumes:
\* request() into checkConnection (line 172), checkConnection() into
\* updateConnectionStatus (line 326), updateConnectionStatus() into initialize
\* (line 87), getStatus (line 139) or newCircuit (line 155)
AwaitResume(c) ==
    /\ calls[c].pc = "await"
    /\ Commit(c, CASE calls[c].site = "request" -> checkConnection_catch(This, calls[c])
                   [] calls[c].site = "checkConnection" ->
                          updateConnectionStatus_cont(This, calls[c])
                   [] calls[c].op = "initialize" -> initialize_verify(This, calls[c])
                   [] calls[c].op = "getStatus" -> getStatus_return(This, calls[c])
                   [] OTHER -> newCircuit_stamp(This, calls[c], clock))
    /\ UNCHANGED <<procs, clock, probesHealthy, files, hostVars>>

\* startTorDaemon, lines 231 and 248: fs.mkdir or fs.writeFile settles; writeFile has
\* put the generated torrc at its path, and after it the executor of lines 251-295
\* spawns the child and stores it
FsSettle(c) ==
    /\ NoMicrotask
    /\ calls[c].pc \in {"mkdir", "writeFile"}
    /\ \E ok \in BOOLEAN, found \in BOOLEAN :
          IF ~ok
          THEN /\ calls' = [calls EXCEPT ![c] = Throw(@, ErrFs)]
               /\ UNCHANGED <<torProcess, procs, files>>
          ELSE IF calls[c].pc = "mkdir"
          THEN /\ calls' = [calls EXCEPT ![c].pc = "writeFile"]
               /\ UNCHANGED <<torProcess, procs, files>>
          ELSE /\ files' = [files EXCEPT ![torrcPath(config)] = torrcContent(config)]
               /\ procs' = Append(procs, spawn(found))
               /\ torProcess' = Len(procs) + 1
               /\ calls' = [calls EXCEPT ![c].pc = "start", ![c].pid = Len(procs) + 1]
    /\ UNCHANGED <<isInitialized, agent, connectionStatus, clock, probesHealthy,
                   hostVars>>

\* a loop that probes once more after the last attempt
waitForTorConnection_loop_offByOne(r, limit) ==
    IF r.attempts <= limit
    THEN checkExistingTorConnection(r, "wait")
    ELSE Throw(r, ErrConnTimeout)

\* a setTimeout(..., 2000) fires: waitForTorConnection, lines 305-318, or
\* newCircuit, lines 152-155
waitForTorConnection_loop(r, limit) ==
    IF r.attempts < limit
    THEN checkExistingTorConnection(r, "wait")
    ELSE Throw(r, ErrConnTimeout)

SleepDone(c, limit) ==
    /\ NoMicrotask
    /\ calls[c].pc = "sleep"
    /\ Commit(c, IF calls[c].site = "wait"
                 THEN St(This, waitForTorConnection_loop(calls[c], limit))
                 ELSE checkConnection(This, calls[c]))
    /\ UNCHANGED <<procs, clock, probesHealthy, files, hostVars>>

\* a handler of the child has run and left the child and the promise as q.  If it
\* settled the promise, initialize (which awaits it at line 77) goes on in the same
\* turn of the event loop: to waitForTorConnection (line 78), or with error e to
\* its catch block (line 96)
startTorDaemon_settled(r, q, e) ==
    IF q.settled = "resolved"
    THEN checkExistingTorConnection(r, "wait")
    ELSE Throw(r, e)

ProcEvent(p, q, e) ==
    /\ procs' = [procs EXCEPT ![p] = q]
    /\ calls' = IF procs[p].settled = "pending" /\ q.settled # "pending"
                THEN [c \in Callers |->
                         IF calls[c].pc = "start" /\ calls[c].pid = p
                         THEN startTorDaemon_settled(calls[c], q, e)
                         ELSE calls[c]]
                ELSE calls
    /\ UNCHANGED <<isInitialized, agent, torProcess, connectionStatus, clock,
                   probesHealthy, files, hostVars>>

ProcOutput(p) ==
    /\ NoMicrotask
    /\ procs[p].status = "running"
    /\ \E m \in BOOLEAN : ProcEvent(p, onOutput(procs[p], m), "-")

ProcError(p) ==
    /\ NoMicrotask
    /\ procs[p].status = "enoent"
    /\ ProcEvent(p, onError(procs[p]), ErrSpawn)

ProcExit(p) ==
    /\ NoMicrotask
    /\ procs[p].status = "running"
    /\ \E code \in (IF procs[p].signalled THEN {"0", "1", "null"} ELSE {"0", "1"}) :
          ProcEvent(p, onExit(procs[p], code), ErrExited)

\* A spawn that failed emits 'error' on the next tick, before any timer can fire
CheckReadyTimer(p) ==
    /\ NoMicrotask
    /\ procs[p].status # "enoent"
    /\ procs[p].poll
    /\ ProcEvent(p, checkReady(procs[p]), "-")

StartupTimeoutTimer(p) ==
    /\ NoMicrotask
    /\ procs[p].status # "enoent"
    /\ ProcEvent(p, onStartupTimeout(procs[p]), ErrStartupTimeout)

(***************************************************************************)
(* Actions: the control-port socket of sendControlCommand                  *)
(***************************************************************************)

\* a newCircuit whose catch block stamps the rotation time as well
control_settle_stampOnFailure(t, r, resolved) ==
    IF r.site = "SIGNAL NEWNYM"
    THEN IF resolved
         THEN St(t, [r EXCEPT !.pc = "sleep", !.site = "newCircuit"])
         ELSE newCircuit_catch([t EXCEPT !.connectionStatus.lastCircuitTime = r.t0 + 1], r)
    ELSE updateConnectionStatus_version(t, r, resolved)

\* the promise of sendControlCommand settles: newCircuit, lines 149-152 and 161-164,
\* or updateConnectionStatus, lines 337-342
control_settle(t, r, resolved) ==
    IF r.site = "SIGNAL NEWNYM"
    THEN IF resolved
         THEN St(t, [r EXCEPT !.pc = "sleep", !.site = "newCircuit"])
         ELSE newCircuit_catch(t, r)
    ELSE updateConnectionStatus_version(t, r, resolved)

\* line 368: the completion test on the accumulated reply
complete(resp) ==
    \E i \in 1..Len(resp) : resp[i] \in {"250 OK", "250-version=0.4.8.9"}

\* lines 360-362
SockConnect(c) ==
    /\ NoMicrotask
    /\ calls[c].pc = "control"
    /\ calls[c].sock = "connecting"
    /\ calls' = [calls EXCEPT ![c].sock = "open",
                              ![c].wrote = Append(@, calls[c].site)]
    /\ UNCHANGED <<isInitialized, agent, torProcess, connectionStatus, procs, clock,
                   probesHealthy, files, hostVars>>

\* lines 364-372
SockData(c) ==
    /\ NoMicrotask
    /\ calls[c].pc = "control"
    /\ calls[c].sock = "open"
    /\ \E l \in CtlLines :
          LET r == [calls[c] EXCEPT !.resp = Append(@, l)]
          IN  IF complete(r.resp)
              THEN Commit(c, control_settle(This,
                                 [r EXCEPT !.sock = "ended", !.ctl = "ok"], TRUE))
              ELSE /\ Len(calls[c].resp) < MaxResp
                   /\ Commit(c, St(This, r))
    /\ UNCHANGED <<procs, clock, probesHealthy, files, hostVars>>

\* lines 374-376: connection refused, reset, or any other socket error.  (Line 355
\* calls require(): in a build that loads the file as an ES module it throws, and the
\* promise is rejected before anything is written, as it is for a refused connection.)
SockError(c) ==
    /\ NoMicrotask
    /\ calls[c].pc = "control"
    /\ calls[c].sock \in {"connecting", "open"}
    /\ Commit(c, control_settle(This,
                     [calls[c] EXCEPT !.sock = "destroyed", !.ctl = "error"], FALSE))
    /\ UNCHANGED <<procs, clock, probesHealthy, files, hostVars>>

\* a timeout handler that rejects and leaves the socket as it is
SockTimeout_noDestroy(c) ==
    /\ NoMicrotask
    /\ calls[c].pc = "control"
    /\ calls[c].sock \in {"connecting", "open"}
    /\ Commit(c, control_settle(This, [calls[c] EXCEPT !.ctl = "timeout"], FALSE))
    /\ UNCHANGED <<procs, clock, probesHealthy, files, hostVars>>

\* lines 378-381 and 383: 5 s without activity
SockTimeout(c) ==
    /\ NoMicrotask
    /\ calls[c].pc = "control"
    /\ calls[c].sock \in {"connecting", "open"}
    /\ Commit(c, control_settle(This,
                     [calls[c] EXCEPT !.sock = "destroyed", !.ctl = "timeout"], FALSE))
    /\ UNCHANGED <<procs, clock, probesHealthy, files, hostVars>>

\* the daemon closes the connection: no handler is registered for 'end' or 'close'
SockPeerClose(c) ==
    /\ NoMicrotask
    /\ calls[c].pc = "control"
    /\ calls[c].sock = "open"
    /\ calls' = [calls EXCEPT ![c].sock = "closed"]
    /\ UNCHANGED <<isInitialized, agent, torProcess, connectionStatus, procs, clock,
                   probesHealthy, files, hostVars>>

(***************************************************************************)
(* Actions: a caller that modifies the status getStatus() returned to it   *)
(***************************************************************************)

\* the caller assigns to a member of the object it was given, or deletes one
CallerAssigns(c) ==
    /\ calls[c].op = "getStatus"
    /\ calls[c].pc = "done"
    /\ \E s \in {[calls[c].snap EXCEPT !.isConnected = "true"],
                 [calls[c].snap EXCEPT !.currentIP = "203.0.113.9"],
                 [calls[c].snap EXCEPT !.lastCircuitTime = NoTime,
                                       !.lastCircuitDate = NoDate]} :
          /\ s # calls[c].snap
          /\ calls' = [calls EXCEPT ![c].snap = s]
    /\ UNCHANGED <<isInitialized, agent, torProcess, connectionStatus, procs, clock,
                   probesHealthy, files, hostVars>>

\* the caller calls lastCircuitTime.setTime(v) on the Date of the object it was
\* given: every reference to that Date now reads v
CallerSetsTime(c) ==
    /\ calls[c].op = "getStatus"
    /\ calls[c].pc = "done"
    /\ calls[c].snap.lastCircuitDate # NoDate
    /\ \E v \in 1..MaxClock :
          LET date == calls[c].snap.lastCircuitDate
              set(status) == IF status.lastCircuitDate = date
                             THEN [status EXCEPT !.lastCircuitTime = v]
                             ELSE status
          IN  /\ v # calls[c].snap.lastCircuitTime
              /\ connectionStatus' = set(connectionStatus)
              /\ calls' = [d \in Callers |-> [calls[d] EXCEPT !.snap = set(@)]]
    /\ UNCHANGED <<isInitialized, agent, torProcess, procs, clock, probesHealthy,
                   files, hostVars>>

\* time passes
Tick ==
    /\ clock < MaxClock
    /\ clock' = clock + 1
    /\ UNCHANGED <<isInitialized, agent, torProcess, connectionStatus, procs, calls,
                   probesHealthy, files, hostVars>>

(***************************************************************************)
(* Actions: a second client on the same host                               *)
(***************************************************************************)

\* no second client
NoPeer == [config |-> constructor(NoConfig), pc |-> "none", conf |-> NoFile]

\* the second client runs startTorDaemon, lines 231-252, with its own configuration:
\* it writes its torrc and spawns its daemon
PeerStartTorDaemon ==
    /\ peer.pc = "idle"
    /\ files' = [files EXCEPT ![torrcPath(peer.config)] = torrcContent(peer.config)]
    /\ peer' = [peer EXCEPT !.pc = "spawned"]
    /\ UNCHANGED <<isInitialized, agent, torProcess, connectionStatus, procs, calls,
                   clock, probesHealthy, env, config, server, tools>>

\* line 252, `tor -f torrcPath`: the daemon of the second client starts and reads
\* the file at the path it was given
PeerDaemonReads ==
    /\ peer.pc = "spawned"
    /\ peer' = [peer EXCEPT !.pc = "running", !.conf = files[torrcPath(peer.config)]]
    /\ UNCHANGED <<isInitialized, agent, torProcess, connectionStatus, procs, calls,
                   clock, probesHealthy, files, env, config, server,
                   tools>>

(***************************************************************************)
(* Actions: the server process that owns the client                        *)
(***************************************************************************)

\* start() has failed: the initialize() that the server awaits has rejected
StartFailed ==
    calls[Main].op = "initialize" /\ calls[Main].pc = "done" /\ calls[Main].out = "throw"

\* the server has not exited, and no rejection is on its way to the catch block of main
Alive == server = "up" /\ ~StartFailed

\* a signal handler that exits without cleaning up
serverCleanup_skip(t, ps) == [t |-> t, procs |-> ps]

\* the server's cleanup(), lines 199-206 of the server, which awaits the client's
\* cleanup(): the child, if the client holds one, is sent SIGTERM
serverCleanup(t, ps) ==
    [t |-> cleanup(t, IdleCall).t,
     procs |-> IF t.torProcess # NoProcess
               THEN [ps EXCEPT ![t.torProcess] = kill(@)]
               ELSE ps]

\* SIGINT or SIGTERM, lines 55-63 of the server: cleanup(), then process.exit(0)
Signal ==
    /\ NoMicrotask
    /\ Alive
    /\ LET s == serverCleanup(This, procs) IN
          /\ isInitialized' = s.t.isInitialized
          /\ agent' = s.t.agent
          /\ torProcess' = s.t.torProcess
          /\ connectionStatus' = s.t.connectionStatus
          /\ procs' = s.procs
    /\ server' = "exit0"
    /\ UNCHANGED <<calls, clock, probesHealthy, files, env, config, peer, tools>>

\* main, lines 222-230 of the server: start() has thrown; the error is logged and
\* the process exits with code 1
MainCatch ==
    /\ server = "up"
    /\ StartFailed
    /\ server' = "exit1"
    /\ UNCHANGED <<isInitialized, agent, torProcess, connectionStatus, procs, calls,
                   clock, probesHealthy, files, env, config, peer, tools>>

(***************************************************************************)
(* The tools of tor-tools.ts and the tool handler of the server            *)
(***************************************************************************)

\* a string whose characters the code looks at is a sequence of characters
UpperCase ==
    <<"A", "B", "C", "D", "E", "F", "G", "H", "I", "J", "K", "L", "M", "N", "O", "P",
      "Q", "R", "S", "T", "U", "V", "W", "X", "Y", "Z">>
LowerCase ==
    <<"a", "b", "c", "d", "e", "f", "g", "h", "i", "j", "k", "l", "m", "n", "o", "p",
      "q", "r", "s", "t", "u", "v", "w", "x", "y", "z">>

\* the lower-case form of each upper-case letter
LowerOf ==
    [ch \in {UpperCase[k] : k \in DOMAIN UpperCase} |->
        LowerCase[CHOOSE k \in DOMAIN UpperCase : UpperCase[k] = ch]]

\* String.prototype.toLowerCase, for the letters A-Z
toLowerCase(s) ==
    [i \in 1..Len(s) |-> IF s[i] \in DOMAIN LowerOf THEN LowerOf[s[i]] ELSE s[i]]

\* String.prototype.includes
includes(s, searchString) ==
    \E i \in 0..(Len(s) - Len(searchString)) :
        SubSeq(s, i + 1, i + Len(searchString)) = searchString

\* knownOnionServices, lines 25-82 of tor-tools.ts, without the addresses
knownOnionServices ==
    <<
      [name |->
          <<"D", "u", "c", "k", "D", "u", "c", "k", "G", "o">>,
       description |->
          <<"P", "r", "i", "v", "a", "c", "y", "-", "f", "o", "c", "u", "s", "e", "d",
            " ", "s", "e", "a", "r", "c", "h", " ", "e", "n", "g", "i", "n", "e">>,
       category |->
          <<"s", "e", "a", "r", "c", "h">>,
       verified |-> TRUE],
      [name |->
          <<"F", "a", "c", "e", "b", "o", "o", "k">>,
       description |->
          <<"S", "o", "c", "i", "a", "l", " ", "n", "e", "t", "w", "o", "r", "k", "i",
            "n", "g", " ", "p", "l", "a", "t", "f", "o", "r", "m">>,
       category |->
          <<"s", "o", "c", "i", "a", "l">>,
       verified |-> TRUE],
      [name |->
          <<"T", "h", "e", " ", "N", "e", "w", " ", "Y", "o", "r", "k", " ", "T", "i",
            "m", "e", "s">>,
       description |->
          <<"N", "e", "w", "s", " ", "a", "n", "d", " ", "j", "o", "u", "r", "n", "a",
            "l", "i", "s", "m">>,
       category |->
          <<"n", "e", "w", "s">>,
       verified |-> TRUE],
      [name |->
          <<"P", "r", "o", "P", "u", "b", "l", "i", "c", "a">>,
       description |->
          <<"I", "n", "v", "e", "s", "t", "i", "g", "a", "t", "i", "v", "e", " ", "j",
            "o", "u", "r", "n", "a", "l", "i", "s", "m">>,
       category |->
          <<"n", "e", "w", "s">>,
       verified |-> TRUE],
      [name |->
          <<"B", "B", "C", " ", "N", "e", "w", "s">>,
       description |->
          <<"B", "r", "i", "t", "i", "s", "h", " ", "n", "e", "w", "s", " ", "s", "e",
            "r", "v", "i", "c", "e">>,
       category |->
          <<"n", "e", "w", "s">>,
       verified |-> TRUE],
      [name |->
          <<"K", "e", "y", "b", "a", "s", "e">>,
       description |->
          <<"S", "e", "c", "u", "r", "e", " ", "m", "e", "s", "s", "a", "g", "i", "n",
            "g", " ", "a", "n", "d", " ", "f", "i", "l", "e", " ", "s", "h", "a", "r",
            "i", "n", "g">>,
       category |->
          <<"c", "o", "m", "m", "u", "n", "i", "c", "a", "t", "i", "o", "n">>,
       verified |-> TRUE],
      [name |->
          <<"P", "r", "i", "v", "a", "c", "y", " ", "I", "n", "t", "e", "r", "n", "a",
            "t", "i", "o", "n", "a", "l">>,
       description |->
          <<"P", "r", "i", "v", "a", "c", "y", " ", "r", "i", "g", "h", "t", "s", " ",
            "o", "r", "g", "a", "n", "i", "z", "a", "t", "i", "o", "n">>,
       category |->
          <<"p", "r", "i", "v", "a", "c", "y">>,
       verified |-> TRUE],
      [name |->
          <<"S", "e", "c", "u", "r", "e", "D", "r", "o", "p">>,
       description |->
          <<"S", "e", "c", "u", "r", "e", " ", "d", "o", "c", "u", "m", "e", "n", "t",
            " ", "s", "h", "a", "r", "i", "n", "g", " ", "f", "o", "r", " ", "j", "o",
            "u", "r", "n", "a", "l", "i", "s", "t", "s">>,
       category |->
          <<"s", "e", "c", "u", "r", "i", "t", "y">>,
       verified |-> TRUE]
    >>

\* the search terms a caller may send
Queries ==
    {
     <<"n", "e", "w", "s">>,
     <<"N", "E", "W", "S">>,
     <<"S", "e", "c", "u", "r", "e">>,
     <<"s", "e", "a", "r", "c", "h", " ", "e", "n", "g", "i", "n", "e", "s">>,
     <<"x", "y", "z">>,
     <<>>
    }

\* a `limit` argument is a JSON number: the pair <<n, d>> stands for n/d
Limits == {<<1, 2>>, <<1, 1>>, <<5, 2>>, <<0, 1>>, <<-1, 1>>}

\* request.params.arguments left out by the caller
NoArgs ==
    [type |-> "undefined", url |-> "undefined", method |-> "undefined",
     reason |-> "undefined", queryType |-> "undefined", query |-> <<>>,
     limitType |-> "undefined", limit |-> <<0, 1>>]

ToolNames ==
    {"tor_request", "check_tor_connection", "get_tor_status", "new_tor_circuit",
     "search_onion_services"}

\* what a caller may send as the arguments of a tool, well-formed or not
ToolArguments(name) ==
    {NoArgs} \cup
    CASE name = "tor_request" ->
           {[NoArgs EXCEPT !.type = "object", !.url = u, !.method = m] :
               u \in Urls \cup {"not a url"}, m \in Methods \cup {"undefined", "TRACE"}}
      [] name = "new_tor_circuit" ->
           {[NoArgs EXCEPT !.type = "object", !.reason = x] :
               x \in {"undefined", "string", "number"}}
      [] name = "search_onion_services" ->
           {[NoArgs EXCEPT !.type = "object", !.queryType = "string", !.query = q] :
               q \in Queries}
           \cup {[NoArgs EXCEPT !.type = "object", !.queryType = "string", !.query = q,
                                !.limitType = "number", !.limit = l] :
                    q \in Queries, l \in Limits}
           \cup {[NoArgs EXCEPT !.type = "object", !.queryType = "number"],
                 [NoArgs EXCEPT !.type = "object", !.queryType = "string",
                                !.limitType = "string"]}
      [] OTHER -> {[NoArgs EXCEPT !.type = "object"]}

\* a caller's slot before its first tool call
IdleTool ==
    [name |-> "none", args |-> NoArgs, pc |-> "idle", out |-> "none", val |-> "-",
     results |-> <<>>, first |-> "-"]

\* the handler returns what the tool returned: a text result
Result(tool, text, results) ==
    [tool EXCEPT !.pc = "done", !.out = "result", !.val = text, !.results = results]

\* the handler throws an McpError, which the caller receives as an error response
McpError(tool, code) == [tool EXCEPT !.pc = "done", !.out = "error", !.val = code]

\* schema.parse(args) of makeRequest, lines 92-100 of tor-tools.ts: TRUE when it does
\* not throw
makeRequest_parse(args) ==
    /\ args.type = "object"
    /\ args.url \in Urls
    /\ args.method \in {"undefined", "GET", "POST", "PUT", "DELETE", "PATCH"}

\* schema.parse(args) of newCircuit, lines 258-262
newCircuit_parse(args) ==
    /\ args.type = "object"
    /\ args.reason \in {"undefined", "string"}

\* schema.parse(args) of searchOnionServices, lines 316-321
searchOnionServices_parse(args) ==
    /\ args.type = "object"
    /\ args.queryType = "string"
    /\ \/ args.limitType = "undefined"
       \/ args.limitType = "number" /\ args.limit[1] > 0

\* limit: z.number().positive().default(10), line 318
searchOnionServices_limit(args) ==
    IF args.limitType = "undefined" THEN <<10, 1>> ELSE args.limit

\* the test of the filter, lines 327-331
matches(service, searchTerm) ==
    \/ includes(toLowerCase(service.name), searchTerm)
    \/ includes(toLowerCase(service.description), searchTerm)
    \/ includes(toLowerCase(service.category), searchTerm)

\* Array.prototype.filter with that test
RECURSIVE filter(_, _)
filter(services, searchTerm) ==
    IF services = <<>>
    THEN <<>>
    ELSE (IF matches(Head(services), searchTerm) THEN <<Head(services)>> ELSE <<>>)
         \o filter(Tail(services), searchTerm)

\* Array.prototype.slice(0, end) for a positive end: end is truncated to an integer
slice(s, end) ==
    LET count == end[1] \div end[2] IN
    SubSeq(s, 1, IF count < Len(s) THEN count ELSE Len(s))

\* searchOnionServices after the parse, lines 323-372: the tool record answered
searchOnionServices(tool) ==
    LET searchTerm == toLowerCase(tool.args.query)
        results == slice(filter(knownOnionServices, searchTerm),
                         searchOnionServices_limit(tool.args))
    IN  IF Len(results) = 0
        THEN Result(tool, "No Onion Services Found", <<>>)
        ELSE Result(tool, "Onion Services Found", results)

\* a tool call makes no call of the client: the handler answers in the same run
\* (lines 158-196 of the server).  An unknown name is answered with MethodNotFound
\* (lines 178-182), arguments that the tool's schema rejects with InternalError
\* (the ZodError of the parse, rewrapped at lines 191-194)
CallToolAnswered(c, name, args) ==
    /\ \/ name \notin ToolNames
       \/ name = "tor_request" /\ ~makeRequest_parse(args)
       \/ name = "new_tor_circuit" /\ ~newCircuit_parse(args)
       \/ name = "search_onion_services"
    /\ LET tool == [IdleTool EXCEPT !.name = name, !.args = args] IN
       tools' = [tools EXCEPT ![c] =
                    IF name \notin ToolNames
                    THEN McpError(tool, "MethodNotFound")
                    ELSE IF name = "search_onion_services"
                            /\ searchOnionServices_parse(args)
                    THEN searchOnionServices(tool)
                    ELSE McpError(tool, "InternalError")]
    /\ UNCHANGED <<isInitialized, agent, torProcess, connectionStatus, calls>>

\* a tool call that goes into the client: the tool's run up to its first await, at
\* line 116 (makeRequest), 165 (checkConnection), 219 (getStatus) or 265 (newCircuit)
CallToolAwaits(c, name, args) ==
    /\ tools' = [tools EXCEPT ![c] =
                    [IdleTool EXCEPT !.name = name, !.args = args, !.pc = "client"]]
    /\ \/ /\ name = "tor_request"
          /\ makeRequest_parse(args)
          /\ Commit(c, request(This,
                [NewCall("request") EXCEPT
                    !.url = args.url,
                    !.method = IF args.method = "undefined" THEN "GET"
                               ELSE args.method]))
       \/ /\ name = "check_tor_connection"
          /\ Commit(c, checkConnection(This, NewCall("checkConnection")))
       \/ /\ name = "get_tor_status"
          /\ Commit(c, checkConnection(This, NewCall("getStatus")))
       \/ /\ name = "new_tor_circuit"
          /\ newCircuit_parse(args)
          /\ calls' = [calls EXCEPT ![c] =
                          sendControlCommand([NewCall("newCircuit") EXCEPT !.t0 = clock],
                                             "SIGNAL NEWNYM")]
          /\ UNCHANGED <<isInitialized, agent, torProcess, connectionStatus>>

\* the CallToolRequestSchema handler, lines 158-196 of the server, with the tool it
\* dispatches to: one tool call of caller c
CallTool(c) ==
    /\ NoMicrotask
    /\ tools[c].pc \in {"idle", "done"}
    /\ Free(c)
    /\ \E name \in ToolNames \cup {"no_such_tool"} :
          \E args \in ToolArguments(name) :
              \/ CallToolAnswered(c, name, args)
              \/ CallToolAwaits(c, name, args)
    /\ UNCHANGED <<procs, clock, probesHealthy, files, env, config, peer, server>>

\* the tool goes on to its second call of the client: checkConnection (tor-tools.ts,
\* line 166) and newCircuit, when the circuit was made (line 268), call getStatus()
TorToolsSecondCall(c) ==
    /\ tools[c].pc = "client"
    /\ calls[c].pc = "done"
    /\ calls[c].out = "return"
    /\ \/ tools[c].name = "check_tor_connection" /\ calls[c].op = "checkConnection"
       \/ /\ tools[c].name = "new_tor_circuit"
          /\ calls[c].op = "newCircuit"
          /\ calls[c].val = "true"

\* what the tool answers once its last call of the client has settled
TorToolsText(tool, r) ==
    CASE tool.name = "tor_request" ->
           IF r.out = "return" THEN "TOR Request Results" ELSE "TOR Request Failed"
      [] tool.name = "check_tor_connection" ->
           IF r.out = "throw" THEN "TOR Connection Check Failed"
           ELSE IF tool.first = "true" THEN "TOR Connection Status: CONNECTED"
           ELSE "TOR Connection Status: DISCONNECTED"
      [] tool.name = "get_tor_status" ->
           IF r.out = "throw" THEN "TOR Status Check Failed" ELSE "TOR Network Status"
      [] tool.name = "new_tor_circuit" ->
           IF r.out = "throw" THEN "Circuit Creation Failed"
           ELSE IF r.op = "newCircuit" THEN "Failed to Create New Circuit"
           ELSE "New TOR Circuit Established"

\* the client call a tool awaited has settled and the tool calls getStatus()
ToolSecondCall(c) ==
    /\ TorToolsSecondCall(c)
    /\ tools' = [tools EXCEPT ![c].first = calls[c].val]
    /\ Commit(c, checkConnection(This, NewCall("getStatus")))
    /\ UNCHANGED <<procs, clock, probesHealthy, files, env, config, peer, server>>

\* the client call a tool awaited has settled and the tool returns its text, which
\* the handler passes on
ToolReturn(c) ==
    /\ tools[c].pc = "client"
    /\ calls[c].pc = "done"
    /\ ~TorToolsSecondCall(c)
    /\ tools' = [tools EXCEPT ![c] = Result(tools[c], TorToolsText(tools[c], calls[c]),
                                            <<>>)]
    /\ UNCHANGED <<isInitialized, agent, torProcess, connectionStatus, procs, calls,
                   clock, probesHealthy, files, env, config, peer, server>>

(***************************************************************************)
(* The specification                                                       *)
(***************************************************************************)

\* a client just constructed (lines 42-49), on a host without a generated torrc
InitClient ==
    /\ isInitialized = FALSE
    /\ agent = NoAgent
    /\ torProcess = NoProcess
    /\ connectionStatus = InitialStatus
    /\ procs = <<>>
    /\ calls = [c \in Callers |-> IdleCall]
    /\ clock = 1
    /\ probesHealthy = TRUE
    /\ files = [path \in TorrcPaths |-> NoFile]
    /\ tools = [c \in Callers |-> IdleTool]

\* the client as the server creates it, in an environment that sets none of the
\* documented variables
Init ==
    /\ InitClient
    /\ env = NoEnv
    /\ config = TorOllamaMcpServer(env)
    /\ peer = NoPeer
    /\ server = "up"

\* the events that resume the call of caller c
Resume(c) ==
    \/ FetchSettle(c)
    \/ JsonSettle(c)
    \/ AwaitResume(c)

\* the events of startTorDaemon and waitForTorConnection
Startup(c, limit) ==
    \/ FsSettle(c)
    \/ SleepDone(c, limit)

ProcEvents ==
    \E p \in 1..Len(procs) :
        \/ ProcOutput(p)
        \/ ProcError(p)
        \/ ProcExit(p)
        \/ CheckReadyTimer(p)
        \/ StartupTimeoutTimer(p)

\* the events of the control-port socket of caller c
Control(c) ==
    \/ SockConnect(c)
    \/ SockData(c)
    \/ SockError(c)
    \/ SockTimeout(c)
    \/ SockPeerClose(c)

\* Spec: one caller uses every method of the client, one call after the other
Next ==
    \/ CallInitialize(Main, MaxSpawn)
    \/ CallRequest(Main)
    \/ CallCheckConnection(Main)
    \/ CallGetStatus(Main)
    \/ CallNewCircuit(Main)
    \/ CallCleanup(Main)
    \/ Resume(Main)
    \/ Startup(Main, maxAttempts)
    \/ Control(Main)
    \/ ProcEvents
    \/ Tick

Spec == Init /\ [][Next]_vars

\* SpecInit: the callers run initialize() and cleanup() concurrently
NextInit ==
    \/ \E c \in Callers :
          \/ CallInitialize(c, MaxRespawn)
          \/ CallCleanup(c)
          \/ Resume(c)
          \/ Startup(c, MaxProbes)
    \/ ProcEvents

SpecInit == Init /\ [][NextInit]_vars

\* SpecStatus: the callers run checkConnection(), getStatus(), newCircuit() and
\* cleanup() concurrently on a client that initialize() has not been called on
NextStatus ==
    \/ \E c \in Callers :
          \/ CallCheckConnection(c)
          \/ CallGetStatus(c)
          \/ CallNewCircuit(c)
          \/ CallCleanup(c)
          \/ AwaitResume(c)
          \/ SleepDone(c, maxAttempts)
          \/ Control(c)
    \/ Tick

SpecStatus == Init /\ [][NextStatus]_vars

\* SpecAlias: the callers run getStatus() and newCircuit() and modify the statuses
\* that getStatus() returned to them
NextAlias ==
    \/ \E c \in Callers :
          \/ CallGetStatus(c)
          \/ CallNewCircuit(c)
          \/ AwaitResume(c)
          \/ SleepDone(c, maxAttempts)
          \/ Control(c)
          \/ CallerAssigns(c)
          \/ CallerSetsTime(c)
    \/ Tick

SpecAlias == Init /\ [][NextAlias]_vars

\* SpecServer: the server process in any environment.  It creates the client, calls
\* initialize() once (start(), line 211 of the server) and exits when start() fails
\* or when a signal arrives
InitServer ==
    /\ InitClient
    /\ env \in Environments
    /\ config = TorOllamaMcpServer(env)
    /\ peer = NoPeer
    /\ server = "up"

NextServer ==
    \/ Alive /\ calls[Main].op = "none" /\ CallInitialize(Main, MaxSpawn)
    \/ Alive /\ Resume(Main)
    \/ Alive /\ Startup(Main, maxAttempts)
    \/ Alive /\ ProcEvents
    \/ Signal
    \/ MainCatch

SpecServer == InitServer /\ [][NextServer]_vars

\* SpecTwo: two clients on one host, created with distinct SOCKS ports and distinct
\* control ports, start their daemons concurrently
InitTwo ==
    /\ InitClient
    /\ env = NoEnv
    /\ \E a \in PartialConfigs, b \in PartialConfigs :
          /\ constructor(a).socksPort # constructor(b).socksPort
          /\ constructor(a).controlPort # constructor(b).controlPort
          /\ config = constructor(a)
          /\ peer = [NoPeer EXCEPT !.config = constructor(b), !.pc = "idle"]
    /\ server = "up"

NextTwo ==
    \/ CallInitialize(Main, MaxSpawn)
    \/ CallCleanup(Main)
    \/ Resume(Main)
    \/ Startup(Main, MaxProbes)
    \/ ProcEvents
    \/ PeerStartTorDaemon
    \/ PeerDaemonReads

SpecTwo == InitTwo /\ [][NextTwo]_vars

\* SpecRace: one initialize() call, and one cleanup() call by another caller that
\* comes while the initialize() is in flight, at any of its awaits
Other == "c2"

NextRace ==
    \/ calls[Main].op = "none" /\ CallInitialize(Main, MaxSpawn)
    \/ calls[Main].op = "initialize" /\ ~Free(Main) /\ calls[Other].op = "none"
          /\ CallCleanup(Other)
    \/ Resume(Main)
    \/ Startup(Main, MaxProbes)
    \/ ProcEvents

SpecRace == Init /\ [][NextRace]_vars

\* SpecTools: one caller invokes the tools, one invocation after the other, on the
\* client as the server's constructor leaves it
NextTools ==
    \/ CallTool(Main)
    \/ ToolSecondCall(Main)
    \/ ToolReturn(Main)
    \/ AwaitResume(Main)
    \/ SleepDone(Main, maxAttempts)
    \/ Control(Main)

SpecTools == Init /\ [][NextTools]_vars

(***************************************************************************)
(* Properties                                                              *)
(***************************************************************************)

\* C1: when a daemon is already reachable (the first probe of initialize() adopts it)
\* and every connectivity probe answers with success and IsTor true, initialize()
\* returns without error, the client is marked initialized, and the guard of
\* request() lets a following call through.
C1_InitializeSucceeds ==
    (/\ calls[Main].op = "initialize"
     /\ calls[Main].pc = "done"
     /\ calls[Main].adopted
     /\ probesHealthy)
    => (/\ calls[Main].out = "return"
        /\ isInitialized
        /\ requestGuard(This))

\* C2: whenever the client is not initialized (never initialized, initialization
\* failed, or after cleanup()), a call of request() ends in the same run with the
\* not-initialized error, for every URL and every method; it never reaches fetch and
\* touches neither the client nor a process.
C2_RequestNotInitialized ==
    [][\A c \in Callers :
          (/\ Free(c)
           /\ calls'[c] # calls[c]
           /\ calls'[c].op = "request"
           /\ ~isInitialized)
          => (/\ calls'[c].pc = "done"
              /\ calls'[c].out = "throw"
              /\ calls'[c].val = ErrNotInitialized
              /\ UNCHANGED <<isInitialized, agent, torProcess, connectionStatus,
                             procs>>)]_vars

\* a request() for an onion address with POST was refused as not initialized although
\* a failed initialize() has left an agent behind
C2_Witness ==
    /\ calls[Main].op = "request"
    /\ calls[Main].pc = "done"
    /\ calls[Main].out = "throw"
    /\ calls[Main].val = ErrNotInitialized
    /\ calls[Main].method = "POST"
    /\ calls[Main].url # "https://example.com/"
    /\ agent = SocksAgent
    /\ ~isInitialized

\* C3: initialize() is idempotent: called again after an initialize() that found a
\* reachable daemon and healthy probes, it returns in the same run, with no probe, no
\* spawn and no new agent.
C3_SecondInitializeReturnsAtOnce ==
    [][(/\ calls[Main].op = "initialize"
        /\ calls[Main].pc = "done"
        /\ calls[Main].adopted
        /\ probesHealthy
        /\ calls'[Main] # calls[Main]
        /\ calls'[Main].op = "initialize")
       => (/\ calls'[Main].pc = "done"
           /\ calls'[Main].out = "return"
           /\ UNCHANGED <<isInitialized, agent, torProcess, connectionStatus,
                          procs>>)]_vars

\* C4: while two initialize() calls are in flight together, they have not both
\* spawned a daemon.
C4_NoSecondDaemon ==
    \A c, d \in Callers :
        (/\ c # d
         /\ calls[c].op = "initialize" /\ ~Free(c)
         /\ calls[d].op = "initialize" /\ ~Free(d))
        => ~(calls[c].pid # NoProcess /\ calls[d].pid # NoProcess)

\* C5: a process handle exists only for a daemon this client spawned: the handle
\* is set only in the step that spawns a child and then refers to that child; an
\* initialize() whose first probe succeeded with IsTor true has spawned no process;
\* and a termination signal goes only to the child the handle refers to, so that
\* cleanup() without a handle signals nothing.
C5_HandleOnlyWhenSpawned ==
    [][/\ ((torProcess' # torProcess /\ torProcess' # NoProcess)
           => (Len(procs') = Len(procs) + 1 /\ torProcess' = Len(procs')))
       /\ \A c \in Callers :
             (calls'[c].op = "initialize" /\ calls'[c].adopted)
             => calls'[c].pid = NoProcess
       /\ \A p \in 1..Len(procs) :
             (procs'[p].signalled /\ ~procs[p].signalled) => torProcess = p
       /\ ((torProcess = NoProcess /\ Len(procs') = Len(procs))
           => \A p \in 1..Len(procs) :
                  procs'[p].signalled = procs[p].signalled)]_vars

\* one caller's initialize() adopted a running daemon, cleanup() was called after the
\* agent was made, and no process was ever spawned or signalled
C5_Witness ==
    /\ calls["c1"].op = "initialize"
    /\ calls["c1"].pc = "done"
    /\ calls["c1"].adopted
    /\ calls["c1"].madeAgent
    /\ calls["c2"].op = "cleanup"
    /\ calls["c2"].pc = "done"
    /\ agent = NoAgent
    /\ torProcess = NoProcess
    /\ procs = <<>>

\* C6: after an initialize() that made the agent, with every connectivity answer a
\* success with IsTor true, checkConnection() returns true, and then
\* connectionStatus.isConnected is true and currentIP is the IP of the answer.
C6_CheckConnectionIffIsTor ==
    (/\ calls[Main].op = "checkConnection"
     /\ calls[Main].pc = "done"
     /\ agent = SocksAgent
     /\ probesHealthy)
    => (/\ calls[Main].out = "return"
        /\ calls[Main].val = "true"
        /\ connectionStatus.isConnected = "true"
        /\ connectionStatus.currentIP \in IPs)

C8_NewCircuitUnreachable ==
    [][\A c \in Callers :
          (/\ calls[c].op = "newCircuit"
           /\ calls[c].pc = "control"
           /\ calls'[c].ctl = "error")
          => (/\ calls'[c].pc = "done"
              /\ calls'[c].out = "return"
              /\ calls'[c].val = "false")]_vars

\* a newCircuit() whose control connection failed has returned false
C8_Witness ==
    \E c \in Callers :
        /\ calls[c].op = "newCircuit"
        /\ calls[c].pc = "done"
        /\ calls[c].ctl = "error"
        /\ calls[c].sock = "destroyed"
        /\ calls[c].out = "return"
        /\ calls[c].val = "false"

\* C9: newCircuit() returns true only when the daemon accepted the signal and the
\* status refresh that follows reported a connection.
C9_NewCircuitTrueOnlyOnSuccess ==
    \A c \in Callers :
        (/\ calls[c].op = "newCircuit"
         /\ calls[c].pc = "done"
         /\ calls[c].val = "true")
        => (calls[c].ctl = "ok" /\ Truthy(calls[c].cc))

\* C10: the run in which newCircuit() returns true stamps lastCircuitTime with a time
\* no earlier than the call; no step erases the stamp or sets it back; and the status
\* that getStatus() returns carries the stamp of the client at that moment.
C10_LastCircuitTime ==
    [][/\ \A c \in Callers :
             (/\ calls[c].op = "newCircuit" /\ ~Free(c)
              /\ calls'[c].pc = "done" /\ calls'[c].val = "true")
             => (/\ connectionStatus'.lastCircuitTime # NoTime
                 /\ connectionStatus'.lastCircuitTime >= calls[c].t0)
       /\ connectionStatus'.lastCircuitTime >= connectionStatus.lastCircuitTime
       /\ \A c \in Callers :
             (/\ calls[c].op = "getStatus" /\ ~Free(c)
              /\ calls'[c].pc = "done")
             => calls'[c].snap.lastCircuitTime = connectionStatus'.lastCircuitTime]_vars

\* newCircuit(), called after the clock had advanced, returned true, and a getStatus()
\* of the other caller returned a status stamped no earlier than that call
C10_Witness ==
    /\ calls["c1"].op = "newCircuit"
    /\ calls["c1"].pc = "done"
    /\ calls["c1"].val = "true"
    /\ calls["c1"].t0 > 1
    /\ calls["c2"].op = "getStatus"
    /\ calls["c2"].pc = "done"
    /\ calls["c2"].snap.lastCircuitTime # NoTime
    /\ calls["c2"].snap.lastCircuitTime >= calls["c1"].t0

\* C11: a control command whose 5 s timeout fires before a completion marker has
\* arrived is rejected in that run, and its socket has been destroyed; a command that
\* has settled has no socket left open.
C11_TimeoutDestroysSocket ==
    [][\A c \in Callers :
          /\ (calls[c].pc = "control" /\ calls'[c].ctl = "timeout")
             => (/\ ~complete(calls[c].resp)
                 /\ calls'[c].sock = "destroyed"
                 /\ calls'[c].pc = "done"
                 /\ calls'[c].val = "false")
          /\ (calls'[c].pc # "control" /\ calls'[c].ctl # "none")
             => calls'[c].sock \in {"ended", "destroyed"}]_vars

\* a newCircuit() ended by the timeout of its control command, the socket destroyed
C11_Witness ==
    \E c \in Callers :
        /\ calls[c].op = "newCircuit"
        /\ calls[c].pc = "done"
        /\ calls[c].ctl = "timeout"
        /\ calls[c].sock = "destroyed"
        /\ calls[c].out = "return"

\* C12: every control command settles: while a command is pending its socket is
\* still connecting or open, so that a reply, a socket error or the 5 s timeout can
\* end it; no command is left pending on a socket from which no event can come.
C12_PendingCommandCanSettle ==
    \A c \in Callers :
        calls[c].pc = "control" => calls[c].sock \in {"connecting", "open"}

\* C13: on a control connection the first thing written is an authentication step,
\* never the command itself.
C13_AuthenticateFirst ==
    \A c \in Callers :
        calls[c].wrote # <<>>
        => calls[c].wrote[1] \notin {"SIGNAL NEWNYM", "GETINFO version"}

\* C14: getStatus() returns a copy: a step in which a caller changes the status it
\* was given changes neither the status of the client nor anything another caller
\* holds.
C14_ReturnedStatusIsACopy ==
    [][\A c \in Callers :
          (/\ calls[c].op = "getStatus" /\ calls[c].pc = "done"
           /\ calls'[c].op = "getStatus" /\ calls'[c].pc = "done"
           /\ calls'[c].snap # calls[c].snap)
          => (/\ connectionStatus' = connectionStatus
              /\ \A d \in Callers \ {c} : calls'[d] = calls[d])]_vars

C19_FailedIsTerminal ==
    [][(\E c \in Callers :
           /\ calls[c].op = "initialize"
           /\ calls[c].pc = "done"
           /\ calls[c].out = "throw"
           /\ calls[c].val \in {ErrSpawn, ErrExited, ErrStartupTimeout, ErrConnTimeout})
       => \A d \in Callers :
             ~(/\ Free(d)
               /\ calls'[d] # calls[d]
               /\ calls'[d].op = "initialize"
               /\ calls'[d].pc = "fetch")]_vars

\* C20: when no daemon is reachable and the tor binary cannot be started,
\* initialize() waits for nothing but the 'error' event of the child and then rejects
\* with the initialization error that wraps the spawn failure, not with another
\* cause.
C20_SpawnFailureIsReported ==
    \A c \in Callers :
        (/\ calls[c].op = "initialize"
         /\ calls[c].pid # NoProcess
         /\ procs[calls[c].pid].status \in {"enoent", "failed"})
        => IF procs[calls[c].pid].status = "enoent"
           THEN calls[c].pc = "start"
           ELSE /\ calls[c].pc = "done"
                /\ calls[c].out = "throw"
                /\ calls[c].val = ErrSpawn

\* initialize() found no daemon, could not start one, and has rejected with the
\* wrapped spawn failure; the start promise is rejected
C20_Witness ==
    /\ calls[Main].op = "initialize"
    /\ calls[Main].pc = "done"
    /\ calls[Main].out = "throw"
    /\ calls[Main].val = ErrSpawn
    /\ ~calls[Main].adopted
    /\ calls[Main].pid # NoProcess
    /\ procs[calls[Main].pid].status = "failed"
    /\ procs[calls[Main].pid].settled = "rejected"

\* C21: a daemon that never completes a readiness marker makes the start, and with
\* it initialize(), reject with the startup-timeout error when the 60 s timer
\* fires; once a marker has appeared within the window the start resolves, and the
\* 60 s timer no longer rejects it.  Stated on the steps: the start resolves only
\* with a marker seen, and the step that rejects initialize() with the startup
\* timeout is taken only when no marker has been seen.
C21_MarkerBeforeTimeoutResolves ==
    [][\A c \in Callers :
          (calls[c].op = "initialize" /\ calls[c].pc = "start")
          => LET p == calls[c].pid IN
             /\ (procs'[p].settled = "resolved" => procs'[p].marker)
             /\ (calls'[c].pc = "done" /\ calls'[c].val = ErrStartupTimeout)
                => ~procs[p].marker]_vars

C23_InitializePipeline ==
    [][\A c \in Callers :
          LET r == calls[c]
              s == calls'[c]
              probe(x, site) == x.pc \in {"fetch", "json"} /\ x.site = site
              refresh(x) == x.pc \in {"await", "control"} /\ x.madeAgent
              fails(x) == x.pc = "done" /\ x.out = "throw"
          IN  (r.op = "initialize" /\ r.pc # "done" /\ s # r)
              => /\ probe(r, "existing")
                    => \/ probe(s, "existing") /\ r.pc = "fetch" /\ s.pc = "json"
                       \/ s.pc = "mkdir" /\ s.pid = NoProcess /\ ~s.madeAgent
                       \/ refresh(s) /\ s.adopted /\ s.pid = NoProcess
                 /\ r.pc = "mkdir" => s.pc = "writeFile" \/ fails(s)
                 /\ r.pc = "writeFile"
                    => \/ s.pc = "start" /\ s.pid = Len(procs') /\ Len(procs') = Len(procs) + 1
                       \/ fails(s) /\ s.pid = NoProcess
                 /\ r.pc = "start"
                    => \/ probe(s, "wait") /\ s.pc = "fetch"
                          /\ procs'[r.pid].settled = "resolved"
                       \/ fails(s) /\ procs'[r.pid].settled = "rejected"
                 /\ probe(r, "wait")
                    => \/ probe(s, "wait") /\ r.pc = "fetch" /\ s.pc = "json"
                       \/ s.pc = "sleep"
                       \/ refresh(s) /\ ~s.adopted
                 /\ r.pc = "sleep" => (probe(s, "wait") /\ s.pc = "fetch") \/ fails(s)
                 /\ (s.madeAgent /\ ~r.madeAgent)
                    => /\ probe(r, "existing") \/ probe(r, "wait")
                       /\ agent' = SocksAgent
                       /\ refresh(s)
                 /\ refresh(r)
                    => \/ refresh(s)
                       \/ /\ s.pc = "done"
                          /\ IF Truthy(connectionStatus'.isConnected)
                             THEN s.out = "return" /\ isInitialized'
                             ELSE /\ s.out = "throw" /\ s.val = ErrNotConnected
                                  /\ isInitialized' = isInitialized
                 /\ (isInitialized' /\ ~isInitialized)
                    => refresh(r) /\ Truthy(connectionStatus'.isConnected)
                 /\ s.pid # r.pid => r.pc = "writeFile" /\ ~r.adopted]_vars

\* an initialize() that went through every stage: the first probe failed, a daemon
\* was spawned and reported ready, a probe through it succeeded, the agent was
\* built, and the refreshed status reported not connected, so that the call
\* rejected with the initialization error
C23_Witness ==
    /\ calls[Main].op = "initialize"
    /\ calls[Main].pc = "done"
    /\ calls[Main].out = "throw"
    /\ calls[Main].val = ErrNotConnected
    /\ calls[Main].madeAgent
    /\ ~calls[Main].adopted
    /\ calls[Main].pid # NoProcess
    /\ procs[calls[Main].pid].settled = "resolved"
    /\ agent = SocksAgent
    /\ ~isInitialized

\* C25: request() on an initialized client makes exactly one HTTP attempt per call
\* and hands its outcome to the caller: the error of a failed attempt, or the
\* response as received.  Stated for a client on which initialize() has built the
\* agent while every connectivity answer reported success with IsTor true: a call
\* of request() on it starts one fetch, and a request() that is finished either
\* made no attempt or returns what its one attempt gave.
C25_OneAttemptPerRequest ==
    [][\A c \in Callers :
          LET r == calls[c]
              s == calls'[c]
          IN  /\ (/\ Free(c) /\ s.op = "request" /\ s # r
                  /\ agent = SocksAgent /\ probesHealthy
                  /\ \E d \in Callers : /\ calls[d].op = "initialize"
                                        /\ calls[d].pc = "done"
                                        /\ calls[d].madeAgent)
                 => s.pc = "fetch" /\ s.fetches = 1
              /\ (r.op = "request" /\ r.pc = "fetch")
                 => /\ r.fetches = 1
                    /\ s # r => /\ s.pc = "done"
                                /\ s.val \in {ErrFetch, "response 200", "response 500"}
                                /\ s.out = "throw" <=> s.val = ErrFetch]_vars

\* C24: two clients created with distinct SOCKS ports and distinct control ports
\* start their daemons concurrently without interfering.  Stated on the steps: once
\* a client has written its torrc, no step of the other client changes the file at
\* that path; and the daemon of the other client, once it has read its
\* configuration, runs with the directives that the other client generated for it.
C24_IndependentClients ==
    [][/\ (peer' = peer /\ files[torrcPath(peer.config)] = torrcContent(peer.config))
          => files'[torrcPath(peer.config)] = files[torrcPath(peer.config)]
       /\ (peer' # peer /\ files[torrcPath(config)] = torrcContent(config))
          => files'[torrcPath(config)] = files[torrcPath(config)]
       /\ peer'.pc = "running"
          => peer'.conf = torrcContent(peer.config)]_vars

\* C26: every HTTP call that the client has in flight, whatever calls of
\* initialize(), request(), checkConnection() and cleanup() came before or run
\* beside it, was given a SOCKS agent for 127.0.0.1 on the configured SOCKS port
\* with name resolution at the proxy (socks5h); no call is sent without an agent.
C26_EveryFetchThroughProxy ==
    \A c \in Callers :
        (calls[c].pc \in {"fetch", "json"} \/ calls[c].fetches > 0)
        => /\ calls[c].via # NoAgent
           /\ calls[c].via.protocol = "socks5h"
           /\ calls[c].via.host = "127.0.0.1"
           /\ calls[c].via.port = config.socksPort

\* a probe of waitForTorConnection is in flight through its agent while the other
\* caller's cleanup() has already removed the client's own agent
C26_Witness ==
    \E c \in Callers, d \in Callers :
        /\ calls[c].op = "initialize"
        /\ calls[c].pc = "fetch"
        /\ calls[c].site = "wait"
        /\ calls[c].via = SocksAgent
        /\ calls[d].op = "cleanup"
        /\ calls[d].pc = "done"
        /\ agent = NoAgent

\* C28: the torrc that the client generates holds no fixed control-port password:
\* no file written at a torrc path carries a HashedControlPassword directive.
C28_NoFixedPassword ==
    \A path \in TorrcPaths :
        files[path] # NoFile => files[path].HashedControlPassword = Absent

\* C29: the server runs with the SOCKS port, the control port and the data directory
\* that the environment gives (TOR_SOCKS_PORT, TOR_CONTROL_PORT, TOR_DATA_DIR), and
\* with 9050, 9051 and the default data directory for those it does not set: the
\* configuration of the client, the agent it builds and the torrc it writes all
\* carry these values.
C29_EnvironmentConfigures ==
    LET socksPort == IF env.TOR_SOCKS_PORT = NoPort
                     THEN DefaultSocksPort ELSE env.TOR_SOCKS_PORT
        controlPort == IF env.TOR_CONTROL_PORT = NoPort
                       THEN DefaultControlPort ELSE env.TOR_CONTROL_PORT
        dataDirectory == IF env.TOR_DATA_DIR = Absent
                         THEN DefaultDataDirectory ELSE env.TOR_DATA_DIR
    IN  /\ config.socksPort = socksPort
        /\ config.controlPort = controlPort
        /\ config.dataDirectory = dataDirectory
        /\ agent # NoAgent => agent.port = socksPort
        /\ \A path \in TorrcPaths :
              files[path] # NoFile
              => /\ path = <<dataDirectory, "torrc">>
                 /\ files[path].SocksPort = socksPort
                 /\ files[path].ControlPort = controlPort
                 /\ files[path].DataDirectory = dataDirectory

\* C30: when SIGINT or SIGTERM reaches the server, at any point of its life, the
\* cleanup runs before the process exits: at the exit the client holds no agent and
\* no child, and every daemon that the process spawned and that is still running
\* has been sent SIGTERM.
C30_SignalCleansUp ==
    [][(server = "up" /\ server' = "exit0")
       => /\ agent' = NoAgent
          /\ torProcess' = NoProcess
          /\ ~isInitialized'
          /\ \A p \in 1..Len(procs') :
                procs'[p].status = "running" => procs'[p].signalled]_vars

\* a signal arrived while initialize() was waiting for the daemon it had spawned:
\* the server has exited with code 0 and the running daemon has been signalled
C30_Witness ==
    /\ server = "exit0"
    /\ calls[Main].op = "initialize"
    /\ calls[Main].pc \in {"start", "fetch", "sleep"}
    /\ calls[Main].pid # NoProcess
    /\ procs[calls[Main].pid].status = "running"
    /\ procs[calls[Main].pid].signalled
    /\ torProcess = NoProcess

\* C34: a control-port command completes only when the final line of the reply
\* (250 OK) has been received: the step that resolves the promise of
\* sendControlCommand leaves a reply whose last line is 250 OK, so a continuation
\* line (250-...) alone does not complete the command.
C34_CompleteOnFinalLine ==
    [][\A c \in Callers :
          (/\ calls[c].pc = "control"
           /\ calls'[c].pc # "control"
           /\ calls'[c].ctl = "ok")
          => /\ calls'[c].resp # <<>>
             /\ calls'[c].resp[Len(calls'[c].resp)] = "250 OK"]_vars

\* C38: a newCircuit() that returns false leaves lastCircuitTime as it was before
\* the call: the only step that changes lastCircuitTime is the one in which a
\* newCircuit() returns true.
C38_FalseLeavesTimestamp ==
    [][connectionStatus'.lastCircuitTime # connectionStatus.lastCircuitTime
       => \E c \in Callers :
             /\ calls[c].op = "newCircuit"
             /\ calls[c].pc = "await"
             /\ calls'[c].pc = "done"
             /\ calls'[c].val = "true"]_vars

\* an earlier newCircuit() has stamped the rotation time, and a later one, whose
\* command was not accepted, has returned false: the stamp is still there
C38_Witness ==
    /\ calls[Main].op = "newCircuit"
    /\ calls[Main].pc = "done"
    /\ calls[Main].val = "false"
    /\ calls[Main].ctl \in {"error", "timeout"}
    /\ connectionStatus.lastCircuitTime # NoTime
    /\ connectionStatus.lastCircuitTime < calls[Main].t0

\* C40: on a client that is not initialized, newCircuit() sends nothing to the
\* control port, returns false and does not set lastCircuitTime.
C40_NewCircuitNeedsInitialized ==
    \A c \in Callers :
        (calls[c].op = "newCircuit" /\ ~isInitialized)
        => /\ calls[c].wrote = <<>>
           /\ calls[c].pc = "done" => calls[c].val = "false"
           /\ connectionStatus.lastCircuitTime = NoTime

\* C37: once the start promise has settled, the readiness polling stops: a
\* readiness-check timer that is still armed then does not arm another one when it
\* fires.
C37_PollingStops ==
    \A p \in 1..Len(procs) :
        (procs[p].settled # "pending" /\ procs[p].poll)
        => ~checkReady(procs[p]).poll

\* C35: an initialize() that rejects after it has spawned a daemon or built an
\* agent leaves nothing behind: the client holds no child and no agent and the
\* daemon it spawned is not left running without a termination signal; and when the
\* server has exited after a failed start, no daemon that it spawned is running
\* unsignalled.
C35_FailedInitializeCleansUp ==
    LET r == calls[Main]
        left(p) == procs[p].status = "running" /\ ~procs[p].signalled
    IN  /\ (/\ StartFailed
            /\ r.val \in {ErrStartupTimeout, ErrConnTimeout, ErrNotConnected}
            /\ r.pid # NoProcess \/ r.madeAgent)
           => /\ torProcess = NoProcess
              /\ agent = NoAgent
              /\ r.pid # NoProcess => ~left(r.pid)
        /\ server = "exit1" => \A p \in 1..Len(procs) : ~left(p)

\* C36: over any sequence of initialize() and cleanup() calls on one client, at most
\* one daemon that the client spawned is alive (running and not sent SIGTERM), and
\* torProcess refers to it.  Stated for the runs in which the calls come one after
\* the other (one caller has made them all).
C36_AtMostOneLiveDaemon ==
    LET alive == {p \in 1..Len(procs) :
                     procs[p].status = "running" /\ ~procs[p].signalled}
    IN  (\E d \in Callers : calls[d].op = "none")
        => /\ Cardinality(alive) <= 1
           /\ \A p \in alive : torProcess = p

\* C39: when cleanup() has run while an initialize() call was in flight, then once
\* both have finished the client holds no agent, is not initialized, and no daemon
\* that it spawned is alive (running and not sent SIGTERM).
C39_CleanupDuringInitialize ==
    (calls[Other].pc = "done" /\ calls[Main].pc = "done")
    => /\ agent = NoAgent
       /\ ~isInitialized
       /\ \A p \in 1..Len(procs) :
             ~(procs[p].status = "running" /\ ~procs[p].signalled)

\* C33: search_onion_services returns at most `limit` entries (10 when no limit is
\* given); every entry is a known service that matches the query, letter case aside,
\* in its name, description or category; the entries are in the order of the
\* directory; and the not-found message is returned exactly when no known service
\* matches the query.
C33_SearchResults ==
    \A c \in Callers :
        (tools[c].name = "search_onion_services" /\ tools[c].out = "result")
        => LET args == tools[c].args
               limit == IF args.limitType = "undefined" THEN <<10, 1>> ELSE args.limit
               results == tools[c].results
               Known == DOMAIN knownOnionServices
               Matching(k) ==
                   \E field \in {knownOnionServices[k].name,
                                 knownOnionServices[k].description,
                                 knownOnionServices[k].category} :
                       includes(toLowerCase(field), toLowerCase(args.query))
               At(i) == CHOOSE k \in Known : knownOnionServices[k] = results[i]
           IN  /\ Len(results) * limit[2] <= limit[1]
               /\ \A i \in DOMAIN results :
                     /\ \E k \in Known : knownOnionServices[k] = results[i]
                     /\ Matching(At(i))
               /\ \A i \in DOMAIN results, j \in DOMAIN results :
                     i < j => At(i) < At(j)
               /\ (tools[c].val = "No Onion Services Found")
                  <=> ~\E k \in Known : Matching(k)

\* C31: every tool invocation ends with a response.  An invocation that was answered
\* carries a text result or an MCP error; the process is up whenever a tool has been
\* invoked; and an invocation in flight can still be answered: the client call it
\* waits for has finished or has an event to come (a control command in flight has a
\* socket that is connecting or open).
C31_EveryInvocationAnswered ==
    \A c \in Callers :
        /\ tools[c].pc = "done" => tools[c].out \in {"result", "error"}
        /\ tools[c].pc # "idle" => server = "up"
        /\ tools[c].pc = "client"
           => (calls[c].pc = "control" => calls[c].sock \in {"connecting", "open"})

====
